---- MODULE Spec2Model ----
(***************************************************************************)
(* Model of the engagement and memory logic of psycho-trader-ai:           *)
(* users, memories, interaction logs and achievements as stored rows, and  *)
(* the request handlers that read and write them.                          *)
(*                                                                         *)
(* Time is the server clock in ticks; TicksPerDay ticks make one calendar  *)
(* day, so that a calendar-day difference (date arithmetic) and an elapsed *)
(* duration (timedelta.days) are different quantities, as in the source.   *)
(***************************************************************************)
EXTENDS Integers, Sequences, FiniteSets, TLC

\* ------------------------------------------------------------------ bounds
TicksPerDay == 2
\* Spec: streaks from creation
MaxNow == 9
MaxTurns == 4
\* SpecDepth: replayed histories around the depth thresholds
MaxBurst == 50
MaxRun == 3
MaxLateTicks == 3
MaxMoreTurns == 2
\* SpecAch, SpecRace: check passes and celebration
MaxNowA == 1
MaxTurnsA == 1
MaxCelebrate == 2
\* SpecTurn: a turn in steps
MaxNowT == 1
MaxTurnsT == 2
\* SpecNotes: operations on stored memories
MaxNowN == 1
MaxNotes == 2
MaxCelebrateN == 1
\* SpecKeys: what the achievement conditions read
MaxNowK == 1
MaxTurnsK == 2
\* SpecHttp: the session, coach and achievement routes
MaxNowH == 1
MaxTurnsH == 2
\* SpecHist: the conversation history of a turn
MaxPrior == 3
MaxPriorTick == 2
MaxNowHist == 1
\* SpecExtract: what the extraction call answers
MaxNowX == 1
MaxTurnsX == 2
\* SpecFiles: transcription uploads
MaxNowF == 1
MaxTurnsF == 1
MaxLeft == 2
\* SpecDash: dashboard statistics
MaxNowD == 1
MaxTurnsD == 3
\* SpecAtomic: turns whose writes can fail
MaxNowAt == 1
MaxTurnsAt == 2
MaxStoredAt == 2
\* SpecCtx: the context of a turn with two users
MaxNowC == 1
MaxTurnsC == 2
\* SpecMem: retrieval
MaxNowM == 1
MaxMemories == 3
MaxLimit == 2
MaxObs == 1

\* --------------------------------------------------------- program constants
DepthSessions2 == 3
DepthSessions3 == 10
DepthSessions4 == 25
DepthSessions5 == 50
StreakBonusMin == 3
DaysTogetherMin == 30
MaxDepth == 5
MinDepth == 1
DefaultRelevance == 5
MinRelevance == 1
MaxRelevance == 10
PromotedRelevance == 9
DecayedRelevance == 3
ContextMinRelevance == 7
ContextRecent == 5
ContextRelevant == 5
ContextSessions == 3
HistoryEntries == 2
HttpOk == 200
HttpBadRequest == 400
HttpServerError == 500
HttpBadGateway == 502
AchievementScanLimit == 1000
DashboardMemoryLimit == 100
StatsSessionLimit == 1
OpeningUpMemories == 5
ThreeDayStreak == 3
WeekWarriorStreak == 7
MonthMasterStreak == 30
InsightSeekerCount == 5
SelfExplorerCount == 10
RelationshipMapperCount == 5

Users == {"alice", "bob"}
NoDate == -1

VARIABLES now, users, memories, sessions, achievements, passes, turns,
          temp_files, ret, maxStreak, prior

\* now: the server clock; users, memories, sessions, achievements: the
\* tables; passes: the check passes in progress; turns: the turns in
\* progress; temp_files: the temporary audio files on disk; ret: the
\* response of the last handler; maxStreak: the largest current_streak each
\* user has had;
\* prior: the response before the last one when both answer the same kind of
\* call (NoRet otherwise)
vars ==
  <<now, users, memories, sessions, achievements, passes, turns, temp_files,
    ret, maxStreak, prior>>

\* ------------------------------------------------------------------- helpers
Min(a, b) == IF a < b THEN a ELSE b
Max(a, b) == IF a > b THEN a ELSE b

\* datetime.date(): the calendar day of a clock value
date(t) == t \div TicksPerDay

\* timedelta.days of (a - b): whole elapsed days, rounded down
timedelta_days(a, b) == (a - b) \div TicksPerDay

RECURSIVE Perms(_)
Perms(S) ==
  IF S = {} THEN {<<>>}
  ELSE UNION {{<<x>> \o p : p \in Perms(S \ {x})} : x \in S}

Prefix(s, n) == SubSeq(s, 1, Min(n, Len(s)))

Range(s) == {s[i] : i \in 1..Len(s)}

\* ---------------------------------------------------------------- User rows
\* User(user_id=...) with the column defaults of the model
NewUser ==
  [exists |-> TRUE,
   first_interaction_date |-> NoDate,
   last_interaction_date |-> NoDate,
   total_sessions |-> 0,
   current_streak |-> 0,
   longest_streak |-> 0,
   connection_depth |-> 1]

NoUser == [NewUser EXCEPT !.exists = FALSE]

\* a variant of get_or_create_user that counts the call as a session
get_or_create_user_counting(us, u) ==
  LET us1 == IF us[u].exists THEN us ELSE [us EXCEPT ![u] = NewUser]
  IN  [us1 EXCEPT ![u].total_sessions = @ + 1]

\* get_or_create_user: the users table after the call
get_or_create_user(us, u) ==
  IF us[u].exists THEN us ELSE [us EXCEPT ![u] = NewUser]

\* _calculate_connection_depth, read at clock value t
calculate_connection_depth_nocap(user, t) ==
  LET s1 == IF user.total_sessions >= DepthSessions2 THEN 2 ELSE 1
      s2 == IF user.total_sessions >= DepthSessions3 THEN 3 ELSE s1
      s3 == IF user.total_sessions >= DepthSessions4 THEN 4 ELSE s2
      s4 == IF user.total_sessions >= DepthSessions5 THEN 5 ELSE s3
      s5 == IF user.current_streak >= StreakBonusMin THEN s4 + 1 ELSE s4
      s6 == IF user.first_interaction_date # NoDate
               /\ timedelta_days(t, user.first_interaction_date) >= DaysTogetherMin
            THEN s5 + 1 ELSE s5
  IN  s6

calculate_connection_depth_caldays(user, t) ==
  LET s1 == IF user.total_sessions >= DepthSessions2 THEN 2 ELSE 1
      s2 == IF user.total_sessions >= DepthSessions3 THEN 3 ELSE s1
      s3 == IF user.total_sessions >= DepthSessions4 THEN 4 ELSE s2
      s4 == IF user.total_sessions >= DepthSessions5 THEN 5 ELSE s3
      s5 == IF user.current_streak >= StreakBonusMin THEN Min(MaxDepth, s4 + 1) ELSE s4
      s6 == IF user.first_interaction_date # NoDate
               /\ date(t) - date(user.first_interaction_date) >= DaysTogetherMin
            THEN Min(MaxDepth, s5 + 1) ELSE s5
  IN  Min(MaxDepth, Max(MinDepth, s6))

\* a variant of _calculate_connection_depth whose streak bonus is two levels
calculate_connection_depth_bonus2(user, t) ==
  LET s1 == IF user.total_sessions >= DepthSessions2 THEN 2 ELSE 1
      s2 == IF user.total_sessions >= DepthSessions3 THEN 3 ELSE s1
      s3 == IF user.total_sessions >= DepthSessions4 THEN 4 ELSE s2
      s4 == IF user.total_sessions >= DepthSessions5 THEN 5 ELSE s3
      s5 == IF user.current_streak >= StreakBonusMin THEN Min(MaxDepth, s4 + 2) ELSE s4
      s6 == IF user.first_interaction_date # NoDate
               /\ timedelta_days(t, user.first_interaction_date) >= DaysTogetherMin
            THEN Min(MaxDepth, s5 + 1) ELSE s5
  IN  Min(MaxDepth, Max(MinDepth, s6))

calculate_connection_depth(user, t) ==
  LET s1 == IF user.total_sessions >= DepthSessions2 THEN 2 ELSE 1
      s2 == IF user.total_sessions >= DepthSessions3 THEN 3 ELSE s1
      s3 == IF user.total_sessions >= DepthSessions4 THEN 4 ELSE s2
      s4 == IF user.total_sessions >= DepthSessions5 THEN 5 ELSE s3
      s5 == IF user.current_streak >= StreakBonusMin THEN Min(MaxDepth, s4 + 1) ELSE s4
      s6 == IF user.first_interaction_date # NoDate
               /\ timedelta_days(t, user.first_interaction_date) >= DaysTogetherMin
            THEN Min(MaxDepth, s5 + 1) ELSE s5
  IN  Min(MaxDepth, Max(MinDepth, s6))

\* the streak branch of update_user_stats
streak_after_24h(user, t) ==
  IF user.last_interaction_date # NoDate
  THEN LET days_diff == timedelta_days(t, user.last_interaction_date)
       IN  IF days_diff = 0 THEN user.current_streak
           ELSE IF days_diff = 1 THEN user.current_streak + 1
           ELSE 1
  ELSE 1

\* a variant of the streak branch that counts every later day as the next one
streak_after_anygap(user, t) ==
  IF user.last_interaction_date # NoDate
  THEN LET days_diff == date(t) - date(user.last_interaction_date)
       IN  IF days_diff = 0 THEN user.current_streak
           ELSE user.current_streak + 1
  ELSE 1

streak_after(user, t) ==
  IF user.last_interaction_date # NoDate
  THEN LET days_diff == date(t) - date(user.last_interaction_date)
       IN  IF days_diff = 0 THEN user.current_streak
           ELSE IF days_diff = 1 THEN user.current_streak + 1
           ELSE 1
  ELSE 1

\* "update longest streak if current is longer"
longest_after_stale(current, longest) == longest

longest_after_last(current, longest) == current

longest_after(current, longest) ==
  IF current > longest THEN current ELSE longest

\* update_user_stats on one row at clock value t
update_user_stats_daily(user, t) ==
  IF user.last_interaction_date # NoDate
     /\ date(t) = date(user.last_interaction_date)
  THEN [user EXCEPT !.last_interaction_date = t]
  ELSE LET cur == streak_after(user, t)
           u1 == [user EXCEPT
                    !.first_interaction_date =
                       IF user.first_interaction_date = NoDate THEN t
                       ELSE user.first_interaction_date,
                    !.current_streak = cur,
                    !.longest_streak = longest_after(cur, user.longest_streak),
                    !.last_interaction_date = t,
                    !.total_sessions = user.total_sessions + 1]
       IN  [u1 EXCEPT !.connection_depth = calculate_connection_depth(u1, t)]

update_user_stats(user, t) ==
  LET cur == streak_after(user, t)
      u1 == [user EXCEPT
               !.first_interaction_date =
                  IF user.first_interaction_date = NoDate THEN t
                  ELSE user.first_interaction_date,
               !.current_streak = cur,
               !.longest_streak = longest_after(cur, user.longest_streak),
               !.last_interaction_date = t,
               !.total_sessions = user.total_sessions + 1]
  IN  [u1 EXCEPT !.connection_depth = calculate_connection_depth(u1, t)]

\* ------------------------------------------------------------- Memory rows
NoPeople == [kind |-> "none", items |-> <<>>]

\* What the extraction step can return for one observation.  observation ""
\* stands for a missing or empty observation; has_relevance FALSE for a
\* dictionary without the relevance_score key.
ObsFear ==
  [observation |-> "fear", has_relevance |-> TRUE, relevance_score |-> 9,
   people_mentioned |-> [kind |-> "list", items |-> <<"mom", " mom ", "boss", "">>],
   is_identity_statement |-> FALSE, is_breakthrough_moment |-> TRUE,
   category |-> "fear_patterns", interpretation |-> "avoids loss",
   follow_up_question |-> "what if it fails?"]

ObsWorth ==
  [observation |-> "worth", has_relevance |-> TRUE, relevance_score |-> 7,
   people_mentioned |-> [kind |-> "text", items |-> <<"dad", " sis", "ex", " ">>],
   is_identity_statement |-> TRUE, is_breakthrough_moment |-> FALSE,
   category |-> "self_worth", interpretation |-> "ties worth to wins",
   follow_up_question |-> ""]

ObsCalm ==
  [observation |-> "calm", has_relevance |-> FALSE, relevance_score |-> 0,
   people_mentioned |-> NoPeople,
   is_identity_statement |-> FALSE, is_breakthrough_moment |-> FALSE,
   category |-> "", interpretation |-> "", follow_up_question |-> ""]

ObsMissing ==
  [observation |-> "", has_relevance |-> TRUE, relevance_score |-> 9,
   people_mentioned |-> NoPeople,
   is_identity_statement |-> FALSE, is_breakthrough_moment |-> FALSE,
   category |-> "", interpretation |-> "", follow_up_question |-> ""]

\* an extraction output whose relevance_score is outside the prompt's 1-10
ObsLoud ==
  [observation |-> "loud", has_relevance |-> TRUE,
   relevance_score |-> MaxRelevance + 1,
   people_mentioned |-> NoPeople,
   is_identity_statement |-> FALSE, is_breakthrough_moment |-> FALSE,
   category |-> "", interpretation |-> "", follow_up_question |-> ""]

ObsSamples == {ObsFear, ObsWorth, ObsCalm, ObsMissing}

\* the outputs of extract_memories: lists of at most MaxObs observations
ExtractionOutputs ==
  UNION {[1..n -> ObsSamples] : n \in 0..MaxObs}

\* json.dumps(people) if isinstance(people, list) else people
people_json(people) ==
  IF people.kind = "list" THEN [kind |-> "json", items |-> people.items]
  ELSE people

\* create_memory as called by batch_store_observations: the new row
create_memory(u, obs, t) ==
  [user_id |-> u,
   observation |-> obs.observation,
   interpretation |-> obs.interpretation,
   category |-> obs.category,
   relevance_score |->
     IF obs.has_relevance THEN obs.relevance_score ELSE DefaultRelevance,
   follow_up_question |-> obs.follow_up_question,
   people_mentioned |-> people_json(obs.people_mentioned),
   is_identity_statement |-> obs.is_identity_statement,
   is_breakthrough_moment |-> obs.is_breakthrough_moment,
   created_at |-> t]

\* batch_store_observations: the rows appended for one extraction output
RECURSIVE batch_store_observations(_, _, _)
batch_store_observations(u, observations, t) ==
  IF observations = <<>> THEN <<>>
  ELSE LET obs == Head(observations)
           rest == batch_store_observations(u, Tail(observations), t)
       IN  IF obs.observation = "" THEN rest
           ELSE <<create_memory(u, obs, t)>> \o rest

\* ids of the rows of table tbl that belong to user u
RowsOf(tbl, u) == {i \in 1..Len(tbl) : tbl[i].user_id = u}

\* order_by(desc(created_at)): no row comes after one created before it;
\* rows created at the same clock value come in either order
recent_sorted(mems, s) ==
  \A i, j \in 1..Len(s) :
    i < j => ~(mems[s[j]].created_at > mems[s[i]].created_at)

\* get_recent_memories(user_id, limit): the possible results
get_recent_memories(mems, u, limit) ==
  {Prefix(p, limit) : p \in {q \in Perms(RowsOf(mems, u)) : recent_sorted(mems, q)}}

\* the rows get_recent_memories(user_id, limit) can return, as a set: all
\* of the user's rows when they fit the limit, else `limit` rows none of
\* which is older than a row left out
recent_rows(mems, u, limit) ==
  LET rows == RowsOf(mems, u)
  IN  IF Cardinality(rows) <= limit THEN {rows}
      ELSE {S \in SUBSET rows :
              /\ Cardinality(S) = limit
              /\ \A a \in S, b \in rows \ S :
                   ~(mems[b].created_at > mems[a].created_at)}

\* get_relevant_memories(user_id, min_relevance, limit): the possible results
relevant_filter(mems, u, min_relevance) ==
  {i \in RowsOf(mems, u) : mems[i].relevance_score >= min_relevance}

relevant_before_oldest(mems, a, b) ==
  \/ mems[a].relevance_score > mems[b].relevance_score
  \/ /\ mems[a].relevance_score = mems[b].relevance_score
     /\ mems[a].created_at < mems[b].created_at

relevant_before(mems, a, b) ==
  \/ mems[a].relevance_score > mems[b].relevance_score
  \/ /\ mems[a].relevance_score = mems[b].relevance_score
     /\ mems[a].created_at > mems[b].created_at

\* order_by(desc(relevance_score), desc(created_at))
relevant_sorted(mems, s) ==
  \A i, j \in 1..Len(s) : i < j => ~relevant_before(mems, s[j], s[i])

get_relevant_memories(mems, u, min_relevance, limit) ==
  {Prefix(p, limit) :
     p \in {q \in Perms(relevant_filter(mems, u, min_relevance)) :
              relevant_sorted(mems, q)}}

\* ------------------------------------------------------------- Achievements
AchievementKeys ==
  <<"first_step", "opening_up", "three_day", "week_warrior", "month_master",
    "trust_builder", "growing_closer", "deep_bond", "truly_known",
    "first_insight", "insight_seeker", "self_explorer", "relationship_mapper">>

\* a variant of str.strip() that leaves its argument as it is
Strip_none(name) == name

\* str.strip() on the names and inputs the samples use
Strip(name) ==
  CASE name = " mom " -> "mom"
    [] name = " sis" -> "sis"
    [] name = " " -> ""
    [] OTHER -> name

\* the names one memory row adds to the people set of a check pass:
\* a JSON list gives its non-empty strings, stripped; any other non-empty
\* text is split at commas and the non-blank pieces are stripped
people_of(row) ==
  LET pm == row.people_mentioned
  IN  IF pm.kind = "json"
      THEN {Strip(pm.items[i]) : i \in {j \in 1..Len(pm.items) : pm.items[j] # ""}}
      ELSE IF pm.kind = "text"
      THEN {Strip(pm.items[i]) :
              i \in {j \in 1..Len(pm.items) : Strip(pm.items[j]) # ""}}
      ELSE {}

\* achievement_checks: the condition of every key, in table order, for user
\* row `user` (key u), the memory table and the set `recent` of the rows
\* returned by get_recent_memories(user_id, limit=1000)
\* a variant of achievement_checks that counts as breakthroughs the memories
\* scored at the promoted relevance or above
achievement_checks_scored(user, mems, u, recent) ==
  LET total_sessions == user.total_sessions
      current_streak == user.current_streak
      connection_depth == user.connection_depth
      breakthrough_count ==
        Cardinality({i \in RowsOf(mems, u) :
                       mems[i].relevance_score >= PromotedRelevance})
      identity_count ==
        Cardinality({i \in RowsOf(mems, u) : mems[i].is_identity_statement})
      people_count ==
        Cardinality(UNION {people_of(mems[i]) : i \in recent})
  IN  << total_sessions >= 1,
         Cardinality(recent) >= OpeningUpMemories,
         current_streak >= ThreeDayStreak,
         current_streak >= WeekWarriorStreak,
         current_streak >= MonthMasterStreak,
         connection_depth >= 2,
         connection_depth >= 3,
         connection_depth >= 4,
         connection_depth >= 5,
         breakthrough_count >= 1,
         breakthrough_count >= InsightSeekerCount,
         identity_count >= SelfExplorerCount,
         people_count >= RelationshipMapperCount >>

achievement_checks(user, mems, u, recent) ==
  LET total_sessions == user.total_sessions
      current_streak == user.current_streak
      connection_depth == user.connection_depth
      breakthrough_count ==
        Cardinality({i \in RowsOf(mems, u) : mems[i].is_breakthrough_moment})
      identity_count ==
        Cardinality({i \in RowsOf(mems, u) : mems[i].is_identity_statement})
      people_count ==
        Cardinality(UNION {people_of(mems[i]) : i \in recent})
  IN  << total_sessions >= 1,
         Cardinality(recent) >= OpeningUpMemories,
         current_streak >= ThreeDayStreak,
         current_streak >= WeekWarriorStreak,
         current_streak >= MonthMasterStreak,
         connection_depth >= 2,
         connection_depth >= 3,
         connection_depth >= 4,
         connection_depth >= 5,
         breakthrough_count >= 1,
         breakthrough_count >= InsightSeekerCount,
         identity_count >= SelfExplorerCount,
         people_count >= RelationshipMapperCount >>

\* the keys whose condition is true, in table order
RECURSIVE TrueKeys(_, _)
TrueKeys(conds, i) ==
  IF i > Len(conds) THEN <<>>
  ELSE (IF conds[i] THEN <<AchievementKeys[i]>> ELSE <<>>) \o TrueKeys(conds, i + 1)

\* has_achievement
has_achievement_never(ach, u, key) == FALSE

has_achievement_anyuser(ach, u, key) ==
  \E i \in 1..Len(ach) : ach[i].achievement_key = key

has_achievement(ach, u, key) ==
  \E i \in 1..Len(ach) : ach[i].user_id = u /\ ach[i].achievement_key = key

\* Achievement(user_id, achievement_key, celebrated=False), unlocked_at now
new_achievement(u, key, t) ==
  [user_id |-> u, achievement_key |-> key, unlocked_at |-> t, celebrated |-> FALSE]

\* the loop of check_and_unlock_achievements over the keys whose condition
\* is true, each through unlock_achievement: the table and the new row ids
RECURSIVE unlock_loop(_, _, _, _, _)
unlock_loop(ach, u, todo, newly, t) ==
  IF todo = <<>> THEN [table |-> ach, newly |-> newly]
  ELSE IF has_achievement(ach, u, Head(todo))
       THEN unlock_loop(ach, u, Tail(todo), newly, t)
       ELSE unlock_loop(Append(ach, new_achievement(u, Head(todo), t)), u,
                        Tail(todo), Append(newly, Len(ach) + 1), t)

\* mark_achievement_celebrated: the table after the call
mark_achievement_celebrated_toggle(ach, id) ==
  IF id \in 1..Len(ach)
  THEN [ach EXCEPT ![id].celebrated = ~ach[id].celebrated]
  ELSE ach

mark_achievement_celebrated(ach, id) ==
  IF id \in 1..Len(ach) THEN [ach EXCEPT ![id].celebrated = TRUE] ELSE ach

\* ------------------------------------------------------------------- state
Procs == {1, 2}

IdlePass == [pc |-> "idle", user |-> "", todo |-> <<>>, newly |-> <<>>]

\* get_user_relationship_stats when there is no user row
NoStats ==
  [days_together |-> 0, total_sessions |-> 0, current_streak |-> 0,
   longest_streak |-> 0, connection_depth |-> 1]

\* a request to POST /session between its steps: the context it read, the
\* observations extracted, and the ids of the rows it has stored so far
IdleTurn ==
  [pc |-> "idle", user |-> "", recent |-> <<>>, relevant |-> <<>>,
   recent_sessions |-> <<>>, stats |-> NoStats, observations |-> <<>>,
   history |-> <<>>, stored |-> {}, logged |-> {}]

\* the response of the last handler
Response(op, u, value, arg) == [op |-> op, user |-> u, value |-> value, arg |-> arg]

NoRet == Response("none", "", <<>>, <<>>)

Init ==
  /\ now = 0
  /\ users = [u \in Users |-> NoUser]
  /\ memories = <<>>
  /\ sessions = <<>>
  /\ achievements = <<>>
  /\ passes = [p \in Procs |-> IdlePass]
  /\ turns = [p \in Procs |-> IdleTurn]
  /\ temp_files = {}
  /\ ret = NoRet
  /\ prior = NoRet
  /\ maxStreak = [u \in Users |-> 0]

\* the largest current_streak stored for each user so far
TrackStreak(us) == [u \in Users |-> Max(maxStreak[u], us[u].current_streak)]

\* ----------------------------------------------------------------- actions
\* the server clock advances
Tick ==
  /\ now' = now + 1
  /\ UNCHANGED <<users, memories, sessions, achievements, passes, turns,
                 temp_files, ret, maxStreak, prior>>

\* SessionService.process_user_input, a turn that completes at clock value
\* t: the user row is created on first use, the extracted observations are
\* stored, the interaction is logged and the engagement stats are updated
process_user_input(db, u, observations, t) ==
  LET us1 == get_or_create_user(db.users, u)
  IN  [users |-> [us1 EXCEPT ![u] = update_user_stats(us1[u], t)],
       memories |-> db.memories \o batch_store_observations(u, observations, t),
       sessions |-> Append(db.sessions, [user_id |-> u, created_at |-> t])]

Turn(u, observations) ==
  LET db == process_user_input(
              [users |-> users, memories |-> memories, sessions |-> sessions],
              u, observations, now)
  IN  /\ memories' = db.memories
      /\ sessions' = db.sessions
      /\ users' = db.users
      /\ maxStreak' = TrackStreak(db.users)
      /\ ret' = Response("turn", u, <<>>, <<>>)
      /\ prior' = NoRet
      /\ UNCHANGED <<now, temp_files, achievements, passes, turns>>

\* a turn in which reply generation or memory extraction raises: the request
\* ends with status 500 after build_context_for_interaction made the user row
TurnFails(u) ==
  /\ users' = get_or_create_user(users, u)
  /\ ret' = Response("turn_error", u, <<>>, <<>>)
  /\ prior' = NoRet
  /\ UNCHANGED <<now, temp_files, memories, sessions, achievements, passes, turns, maxStreak>>

\* POST /trader/{user_id}/achievements/check served without interleaving
CheckAchievements(u) ==
  LET us1 == get_or_create_user(users, u)
  IN  /\ \A p \in Procs : passes[p].pc = "idle"
      /\ \E recent \in recent_rows(memories, u, AchievementScanLimit) :
           LET conds == achievement_checks(us1[u], memories, u, recent)
               res == unlock_loop(achievements, u, TrueKeys(conds, 1), <<>>, now)
           IN  /\ achievements' = res.table
               /\ ret' = Response("check", u, res.newly, <<>>)
      /\ prior' = IF ret.op = "check" THEN ret ELSE NoRet
      /\ users' = us1
      /\ UNCHANGED <<now, temp_files, memories, sessions, passes, turns, maxStreak>>

\* POST /trader/{user_id}/achievements/{achievement_id}/celebrate
CelebrateAchievement(u, id) ==
  /\ users' = get_or_create_user(users, u)
  /\ achievements' = mark_achievement_celebrated(achievements, id)
  /\ ret' = Response(IF id \in 1..Len(achievements) THEN "celebrate" ELSE "not_found",
                     u, <<id>>, <<>>)
  /\ prior' = IF ret.op = "celebrate" THEN ret ELSE NoRet
  /\ UNCHANGED <<now, temp_files, memories, sessions, passes, turns, maxStreak>>

\* get_relevant_memories applied to the stored memories
QueryRelevant(u, min_relevance, limit) ==
  /\ \E r \in get_relevant_memories(memories, u, min_relevance, limit) :
       ret' = Response("relevant", u, r, <<min_relevance, limit>>)
  /\ prior' = NoRet
  /\ UNCHANGED <<now, temp_files, users, memories, sessions, achievements, passes, turns, maxStreak>>

\* ------------------------------------------------ Spec: streaks from creation
Next ==
  \/ now < MaxNow /\ Tick
  \/ \E u \in Users : Len(sessions) < MaxTurns /\ Turn(u, <<>>)
  \/ \E u \in Users : TurnFails(u)

Spec == Init /\ [][Next]_vars

\* ----------------------------------- SpecDepth: histories around thresholds
\* A history is the list of clock values of a user's completed turns.  The
\* state after a history is the one process_user_input leaves when it runs
\* at each of them in turn, starting from the empty tables.
EmptyDb ==
  [users |-> [u \in Users |-> NoUser], memories |-> <<>>, sessions |-> <<>>]

\* (each turn logs a session; the test makes the step's state a value before
\* the next step starts from it)
RECURSIVE Replay(_, _, _, _)
Replay(db, u, times, observations) ==
  IF times = <<>> THEN db
  ELSE LET next == process_user_input(db, u, observations, Head(times))
       IN  IF next.sessions = <<>> THEN db
           ELSE Replay(next, u, Tail(times), observations)

\* the largest current_streak stored for u along a history
RECURSIVE StreakPeak(_, _, _)
StreakPeak(db, u, times) ==
  IF times = <<>> THEN db.users[u].current_streak
  ELSE Max(db.users[u].current_streak,
           StreakPeak(process_user_input(db, u, <<>>, Head(times)), u, Tail(times)))

\* n copies of clock value t
Burst(n, t) == [i \in 1..n |-> t]

\* one turn at the start of each of the days from..to
Daily(from, to) == [i \in 1..(to - from + 1) |-> (from + i - 1) * TicksPerDay]

\* 1 + burst turns at clock value first (on day 0), one turn on each of the
\* following run0 - 1 days, then a run of run1 daily turns whose last one
\* is at clock value last
History(first, burst, run0, run1, last) ==
  Burst(1 + burst, first) \o Daily(1, run0 - 1)
    \o Daily(date(last) - run1 + 1, date(last) - 1) \o <<last>>

Histories ==
  { History(first, burst, run0, run1, last) :
      first \in 0..(TicksPerDay - 1), burst \in 0..MaxBurst,
      run0 \in 1..MaxRun, run1 \in 1..MaxRun,
      last \in {DaysTogetherMin * TicksPerDay - k : k \in 1..MaxLateTicks} }

Subject == "alice"

\* the state a history h of Subject's turns, each storing `observations`,
\* leaves at clock value t
After(h, observations, t) ==
  LET db == Replay(EmptyDb, Subject, h, observations)
  IN  /\ now = t
      /\ users = db.users
      /\ memories = db.memories
      /\ sessions = db.sessions
      /\ achievements = <<>>
      /\ passes = [p \in Procs |-> IdlePass]
      /\ turns = [p \in Procs |-> IdleTurn]
      /\ temp_files = {}
      /\ ret = NoRet
      /\ prior = NoRet
      /\ maxStreak = [u \in Users |-> StreakPeak(EmptyDb, u, h)]

InitDepth == \E h \in Histories : After(h, <<>>, h[Len(h)])

\* the turns completed since the earliest end of a history
LateTurns ==
  Cardinality({i \in 1..Len(sessions) :
                 sessions[i].created_at >= DaysTogetherMin * TicksPerDay - MaxLateTicks})

NextDepth ==
  \/ now < DaysTogetherMin * TicksPerDay + MaxLateTicks /\ Tick
  \/ LateTurns <= MaxMoreTurns /\ Turn(Subject, <<>>)

SpecDepth == InitDepth /\ [][NextDepth]_vars

\* ------------------------------------ SpecAch: check passes and celebration
\* Subject's histories: no turn, or a turn on each of the last n days before
\* AchStart, each storing a breakthrough and an identity statement
AchRuns == {0, ThreeDayStreak - 1, WeekWarriorStreak, MonthMasterStreak}

AchStored == <<ObsFear, ObsWorth>>

AchStart == (MonthMasterStreak - 1) * TicksPerDay + 1

InitAch ==
  \E n \in AchRuns :
    After(Daily(MonthMasterStreak - n, MonthMasterStreak - 1), AchStored, AchStart)

\* the extraction output of a later turn: one breakthrough for Subject,
\* nothing for the other user
AchOutput(u) == IF u = Subject THEN <<ObsFear>> ELSE <<>>

\* the turns completed since AchStart
AchTurns ==
  Cardinality({i \in 1..Len(sessions) : sessions[i].created_at >= AchStart})

NextAch ==
  \/ now < AchStart + MaxNowA /\ Tick
  \/ \E u \in Users : AchTurns < MaxTurnsA /\ Turn(u, AchOutput(u))
  \/ \E u \in Users : CheckAchievements(u)
  \/ \E u \in Users, id \in 1..MaxCelebrate : CelebrateAchievement(u, id)

SpecAch == InitAch /\ [][NextAch]_vars

\* ------------------------------------------- SpecRace: overlapping passes
\* Two requests to POST /trader/{user_id}/achievements/check, each with the
\* database session get_db gives it.  Every query and every commit of a pass
\* is a step of its own, so that the other pass can run between the
\* has_achievement lookup of unlock_achievement and its insert.

\* the handler up to the achievement_checks table: the user row is created on
\* first use and the conditions are read
CheckBegin(p, u) ==
  LET us1 == get_or_create_user(users, u)
  IN  /\ passes[p].pc = "idle"
      /\ \E recent \in recent_rows(memories, u, AchievementScanLimit) :
           passes' = [passes EXCEPT ![p] =
                        [pc |-> "lookup", user |-> u,
                         todo |-> TrueKeys(achievement_checks(us1[u], memories, u, recent), 1),
                         newly |-> <<>>]]
      /\ users' = us1
      /\ UNCHANGED <<now, temp_files, memories, sessions, achievements, turns, ret, maxStreak,
                     prior>>

\* the next key of the loop: unlock_achievement's has_achievement lookup, or
\* the return of the handler when no key is left
CheckLookup(p) ==
  LET pass == passes[p]
  IN  /\ pass.pc = "lookup"
      /\ IF pass.todo = <<>>
         THEN /\ passes' = [passes EXCEPT ![p] = IdlePass]
              /\ ret' = Response("check", pass.user, pass.newly, <<>>)
              /\ prior' = IF ret.op = "check" THEN ret ELSE NoRet
         ELSE /\ passes' = [passes EXCEPT ![p] =
                              IF has_achievement(achievements, pass.user, Head(pass.todo))
                              THEN [pass EXCEPT !.todo = Tail(pass.todo)]
                              ELSE [pass EXCEPT !.pc = "insert"]]
              /\ UNCHANGED <<ret, prior>>
      /\ UNCHANGED <<now, temp_files, users, memories, sessions, achievements, turns, maxStreak>>

\* unlock_achievement's add and commit for the key looked up
CheckInsert(p) ==
  LET pass == passes[p]
  IN  /\ pass.pc = "insert"
      /\ achievements' =
           Append(achievements, new_achievement(pass.user, Head(pass.todo), now))
      /\ passes' = [passes EXCEPT ![p] =
                      [pass EXCEPT !.pc = "lookup",
                                   !.todo = Tail(pass.todo),
                                   !.newly = Append(pass.newly, Len(achievements) + 1)]]
      /\ UNCHANGED <<now, temp_files, users, memories, sessions, turns, ret, maxStreak, prior>>

NextRace ==
  \/ now < MaxNowA /\ Tick
  \/ \E u \in Users : Len(sessions) < MaxTurnsA /\ Turn(u, AchOutput(u))
  \/ \E p \in Procs, u \in Users : CheckBegin(p, u)
  \/ \E p \in Procs : CheckLookup(p)
  \/ \E p \in Procs : CheckInsert(p)

SpecRace == Init /\ [][NextRace]_vars

\* -------------------------------------------------------- SpecMem: retrieval
\* the thresholds asked for: the one of the context builder and one above it
MinRelevances == {ContextMinRelevance, ContextMinRelevance + 1}

\* the extraction outputs of the turns: lists of one to MaxObs
\* observations of relevance 9 and 7
MemOutputs == UNION {[1..n -> {ObsFear, ObsWorth}] : n \in 1..MaxObs}

NextMem ==
  \/ now < MaxNowM /\ Tick
  \/ \E u \in Users, observations \in MemOutputs :
       /\ Turn(u, observations)
       /\ Len(memories') <= MaxMemories
  \/ \E u \in Users, min_relevance \in MinRelevances, limit \in 1..MaxLimit :
       QueryRelevant(u, min_relevance, limit)

SpecMem == Init /\ [][NextMem]_vars

\* ------------------------------------------------- SpecTurn: a turn in steps
\* SessionService.process_user_input as the sequence of its calls, each a
\* step, for up to two requests at a time.

\* get_user_relationship_stats read at clock value t
get_user_relationship_stats_next(user, t) ==
  LET row == update_user_stats(user, t)
  IN  [days_together |-> timedelta_days(t, row.first_interaction_date) + 1,
       total_sessions |-> row.total_sessions,
       current_streak |-> row.current_streak,
       longest_streak |-> row.longest_streak,
       connection_depth |-> row.connection_depth]

get_user_relationship_stats(user, t) ==
  [days_together |->
     IF user.first_interaction_date # NoDate
     THEN timedelta_days(t, user.first_interaction_date) + 1 ELSE 0,
   total_sessions |-> user.total_sessions,
   current_streak |-> user.current_streak,
   longest_streak |-> user.longest_streak,
   connection_depth |-> user.connection_depth]

\* a variant of get_recent_sessions without the filter on the user
get_recent_sessions_anyuser(sess, u, limit) ==
  {Prefix(p, limit) : p \in {q \in Perms(1..Len(sess)) : recent_sorted(sess, q)}}

\* get_recent_sessions(user_id, limit): the possible results
get_recent_sessions(sess, u, limit) ==
  {Prefix(p, limit) : p \in {q \in Perms(RowsOf(sess, u)) : recent_sorted(sess, q)}}

\* SessionService._format_recent_context: recent_sessions[-2:], the last two
\* entries of the list it is given
format_recent_context(recent_sessions) ==
  SubSeq(recent_sessions, Max(1, Len(recent_sessions) - HistoryEntries + 1),
         Len(recent_sessions))

\* the extraction outputs of the turns
TurnOutputs == {<<>>, <<ObsFear>>}

\* steps 1 and the stats read: build_context_for_interaction,
\* get_recent_interaction_context, get_or_create_user,
\* get_user_relationship_stats
TurnContext(p, u) ==
  LET us1 == get_or_create_user(users, u)
  IN  /\ turns[p].pc = "idle"
      /\ \E recent \in get_recent_memories(memories, u, ContextRecent),
            relevant \in get_relevant_memories(memories, u, ContextMinRelevance,
                                               ContextRelevant),
            recent_sessions \in get_recent_sessions(sessions, u, ContextSessions) :
           turns' = [turns EXCEPT ![p] =
                       [IdleTurn EXCEPT
                          !.pc = "generate", !.user = u, !.recent = recent,
                          !.relevant = relevant,
                          !.recent_sessions = recent_sessions,
                          !.stats = get_user_relationship_stats(us1[u], now)]]
      /\ users' = us1
      /\ UNCHANGED <<now, temp_files, memories, sessions, achievements, passes, ret, maxStreak,
                     prior>>

\* steps 2 and 3: generate_response and extract_memories return; the
\* conversation history given to extract_memories is kept
TurnGenerate(p) ==
  /\ turns[p].pc = "generate"
  /\ \E observations \in TurnOutputs :
       turns' = [turns EXCEPT
                  ![p].pc = "store",
                  ![p].history = format_recent_context(turns[p].recent_sessions),
                  ![p].observations = observations]
  /\ UNCHANGED <<now, temp_files, users, memories, sessions, achievements, passes, ret,
                 maxStreak, prior>>

\* generate_response or extract_memories raises: the request ends with 500
TurnRaises(p) ==
  /\ turns[p].pc = "generate"
  /\ turns' = [turns EXCEPT ![p] = IdleTurn]
  /\ ret' = Response("turn_error", turns[p].user, <<>>, <<>>)
  /\ prior' = NoRet
  /\ UNCHANGED <<now, temp_files, users, memories, sessions, achievements, passes, maxStreak>>

\* step 4: batch_store_observations
TurnStore(p) ==
  LET turn == turns[p]
      rows == batch_store_observations(turn.user, turn.observations, now)
  IN  /\ turn.pc = "store"
      /\ memories' = memories \o rows
      /\ turns' = [turns EXCEPT
                     ![p].pc = "log",
                     ![p].stored = (Len(memories) + 1)..(Len(memories) + Len(rows))]
      /\ UNCHANGED <<now, temp_files, users, sessions, achievements, passes, ret, maxStreak,
                     prior>>

\* step 5: log_interaction
TurnLog(p) ==
  LET turn == turns[p]
  IN  /\ turn.pc = "log"
      /\ sessions' = Append(sessions, [user_id |-> turn.user, created_at |-> now])
      /\ turns' = [turns EXCEPT ![p].pc = "stats",
                                ![p].logged = {Len(sessions) + 1}]
      /\ UNCHANGED <<now, temp_files, users, memories, achievements, passes, ret, maxStreak,
                     prior>>

\* step 6: get_or_create_user, update_user_stats, and the response
TurnStats(p) ==
  LET turn == turns[p]
      us1 == get_or_create_user(users, turn.user)
      us2 == [us1 EXCEPT ![turn.user] = update_user_stats(us1[turn.user], now)]
  IN  /\ turn.pc = "stats"
      /\ users' = us2
      /\ maxStreak' = TrackStreak(us2)
      /\ turns' = [turns EXCEPT ![p] = IdleTurn]
      /\ ret' = Response("turn", turn.user, <<>>, <<>>)
      /\ prior' = NoRet
      /\ UNCHANGED <<now, temp_files, memories, sessions, achievements, passes>>

\* the requests received so far that got past the context read
TurnsBegun ==
  Len(sessions) + Cardinality({p \in Procs : turns[p].pc \in {"generate", "store", "log"}})

NextTurn ==
  \/ now < MaxNowT /\ Tick
  \/ \E p \in Procs, u \in Users : TurnsBegun < MaxTurnsT /\ TurnContext(p, u)
  \/ \E p \in Procs : TurnGenerate(p)
  \/ \E p \in Procs : TurnRaises(p)
  \/ \E p \in Procs : TurnStore(p)
  \/ \E p \in Procs : TurnLog(p)
  \/ \E p \in Procs : TurnStats(p)

SpecTurn == Init /\ [][NextTurn]_vars

\* --------------------------------- SpecNotes: operations on stored memories
\* Every operation that can run once memories are stored: turns, achievement
\* passes, celebrations, promotion and decay of a memory, dashboard reads.

\* a variant of update_memory_relevance that stores the new score in a fresh
\* row and removes the old one
update_memory_relevance_fresh(mems, id, new_score) ==
  IF id \in 1..Len(mems)
  THEN SubSeq(mems, 1, id - 1) \o SubSeq(mems, id + 1, Len(mems))
         \o <<[mems[id] EXCEPT !.relevance_score = new_score]>>
  ELSE mems

\* MemoryRepository.update_memory_relevance: the row with this id, if there
\* is one, gets the new score
update_memory_relevance(mems, id, new_score) ==
  IF id \in 1..Len(mems)
  THEN [mems EXCEPT ![id].relevance_score = new_score]
  ELSE mems

\* MemoryService.mark_memory_as_significant
MarkSignificant(id) ==
  /\ memories' = update_memory_relevance(memories, id, PromotedRelevance)
  /\ ret' = Response(IF id \in 1..Len(memories) THEN "promote" ELSE "not_found",
                     "", <<id>>, <<>>)
  /\ prior' = NoRet
  /\ UNCHANGED <<now, temp_files, users, sessions, achievements, passes, turns, maxStreak>>

\* MemoryService.decay_memory_relevance: decay_amount is not used
DecayRelevance(id, decay_amount) ==
  /\ memories' = update_memory_relevance(memories, id, DecayedRelevance)
  /\ ret' = Response(IF id \in 1..Len(memories) THEN "decay" ELSE "not_found",
                     "", <<id>>, <<decay_amount>>)
  /\ prior' = NoRet
  /\ UNCHANGED <<now, temp_files, users, sessions, achievements, passes, turns, maxStreak>>

\* GET /trader/{user_id}/memories: the user row is created on first use and
\* the user's memories are returned, newest first
GetTraderMemories(u) ==
  /\ users' = get_or_create_user(users, u)
  /\ \E r \in get_recent_memories(memories, u, DashboardMemoryLimit) :
       ret' = Response("memories", u, r, <<>>)
  /\ prior' = NoRet
  /\ UNCHANGED <<now, temp_files, memories, sessions, achievements, passes, turns, maxStreak>>

\* the extraction outputs of the turns: a breakthrough, a score above the
\* scale
NoteOutputs == {<<ObsFear>>, <<ObsLoud>>}

NextNotes ==
  \/ now < MaxNowN /\ Tick
  \/ \E observations \in NoteOutputs :
       /\ Len(memories) < MaxNotes
       /\ Turn(Subject, observations)
  \/ \E id \in 1..(Len(memories) + 1) : MarkSignificant(id)
  \/ \E id \in 1..(Len(memories) + 1) : DecayRelevance(id, 1)
  \/ CheckAchievements(Subject)
  \/ \E id \in 1..MaxCelebrateN : CelebrateAchievement(Subject, id)
  \/ GetTraderMemories(Subject)

SpecNotes == Init /\ [][NextNotes]_vars

\* ------------------------- SpecKeys: what the achievement conditions read
\* the keys a call of check_and_unlock_achievements for u unlocks in the
\* given tables, after get_or_create_user: one set for each result
\* get_recent_memories can give
check_and_unlock_achievements(us, mems, ach, u, t) ==
  LET us1 == get_or_create_user(us, u)
  IN  { LET res == unlock_loop(ach, u,
                     TrueKeys(achievement_checks(us1[u], mems, u, recent), 1),
                     <<>>, t)
        IN  {res.table[i].achievement_key : i \in Range(res.newly)}
        : recent \in recent_rows(mems, u, AchievementScanLimit) }

\* the extraction outputs of the turns: one plain observation, one scored
\* above the scale, and as many plain ones as opening_up asks for
KeyOutputs ==
  {<<ObsCalm>>, <<ObsLoud>>, [i \in 1..OpeningUpMemories |-> ObsCalm]}

NextKeys ==
  \/ now < MaxNowK /\ Tick
  \/ \E u \in Users, observations \in KeyOutputs :
       /\ Len(sessions) < MaxTurnsK
       /\ Turn(u, observations)
  \/ \E u \in Users : CheckAchievements(u)

SpecKeys == Init /\ [][NextKeys]_vars

\* ------------------ SpecHttp: the session, coach and achievement routes
\* the request bodies' user_input: empty, blank, and a message
UserInputs == {"", " ", "hi"}

HttpOutputs == {<<>>, <<ObsFear>>}

\* POST /session: an input that strips to nothing is refused before any
\* other work; otherwise process_user_input runs, and whatever it raises
\* becomes a 500 after build_context_for_interaction made the user row
PostSession(u, user_input) ==
  /\ IF Strip(user_input) = ""
     THEN /\ ret' = Response("session", u, <<HttpBadRequest>>, <<user_input>>)
          /\ UNCHANGED <<users, memories, sessions, maxStreak>>
     ELSE \/ \E observations \in HttpOutputs :
               LET db == process_user_input(
                           [users |-> users, memories |-> memories,
                            sessions |-> sessions],
                           u, observations, now)
               IN  /\ Len(sessions) < MaxTurnsH
                   /\ memories' = db.memories
                   /\ sessions' = db.sessions
                   /\ users' = db.users
                   /\ maxStreak' = TrackStreak(db.users)
                   /\ ret' = Response("session", u, <<HttpOk>>, <<user_input>>)
          \/ /\ users' = get_or_create_user(users, u)
             /\ ret' = Response("session", u, <<HttpServerError>>, <<user_input>>)
             /\ UNCHANGED <<memories, sessions, maxStreak>>
  /\ prior' = NoRet
  /\ UNCHANGED <<now, temp_files, achievements, passes, turns>>

\* POST /coach: an input that strips to nothing is refused; otherwise the
\* handler calls service.process_coach_input, which SessionService does not
\* have (the def of that name is nested in the module-level function
\* generate_session_summary), so the call raises AttributeError and the
\* handler answers 500 before anything is read or written
PostCoach(u, user_input) ==
  /\ ret' = Response("coach", u,
                     IF Strip(user_input) = "" THEN <<HttpBadRequest>>
                     ELSE <<HttpServerError>>,
                     <<user_input>>)
  /\ prior' = NoRet
  /\ UNCHANGED <<now, temp_files, users, memories, sessions, achievements, passes, turns,
                 maxStreak>>

\* GET /trader/{user_id}/achievements: the user row is created on first
\* use, then the handler calls repository.get_achievements, a method
\* MemoryRepository does not have (its query is get_user_achievements), and
\* answers 500 with the AttributeError's text
GetAchievements(u) ==
  /\ users' = get_or_create_user(users, u)
  /\ ret' = Response("achievements", u, <<HttpServerError>>, <<>>)
  /\ prior' = NoRet
  /\ UNCHANGED <<now, temp_files, memories, sessions, achievements, passes, turns, maxStreak>>

NextHttp ==
  \/ now < MaxNowH /\ Tick
  \/ \E u \in Users, user_input \in UserInputs : PostSession(u, user_input)
  \/ \E u \in Users, user_input \in UserInputs : PostCoach(u, user_input)
  \/ \E u \in Users : CheckAchievements(u)
  \/ \E u \in Users : GetAchievements(u)

SpecHttp == Init /\ [][NextHttp]_vars

\* ------------------------- SpecHist: the conversation history of a turn
\* Subject's earlier turns: ContextSessions to MaxPrior of them, at clock
\* values that do not go back; then turns in steps
RECURSIVE PriorTimes(_)
PriorTimes(n) ==
  IF n = 0 THEN {<<>>}
  ELSE {Append(h, t) : h \in PriorTimes(n - 1), t \in 0..MaxPriorTick}

Ascending(h) == \A i \in 1..(Len(h) - 1) : h[i] <= h[i + 1]

InitHist ==
  \E n \in ContextSessions..MaxPrior :
    \E h \in {g \in PriorTimes(n) : Ascending(g)} :
      After(h, <<>>, h[Len(h)])

NextHist ==
  \/ now < MaxPriorTick + MaxNowHist /\ Tick
  \/ \E p \in Procs :
       /\ TurnsBegun <= MaxPrior
       /\ TurnContext(p, Subject)
  \/ \E p \in Procs : TurnGenerate(p)
  \/ \E p \in Procs : TurnRaises(p)
  \/ \E p \in Procs : TurnStore(p)
  \/ \E p \in Procs : TurnLog(p)
  \/ \E p \in Procs : TurnStats(p)

SpecHist == InitHist /\ [][NextHist]_vars

\* ----------------------- SpecExtract: what the extraction call answers
\* The text the extraction call answers with: a body that is or is not
\* valid JSON, of the given JSON type when it is, holding the given
\* observations when it is a list or an object wrapping one; bare, opening
\* with a ```json fence or a ``` fence, or with a fence after some prose.
Fences == {"none", "json", "plain", "inner"}

JsonTypes == {"list", "object", "string"}

Contents ==
  [fence : Fences, valid : BOOLEAN, type : JsonTypes, items : {<<ObsFear>>}]

\* the text json.loads is given: the inside of a fence the text opens with,
\* else the whole text
unfenced(content) ==
  IF content.fence \in {"json", "plain"}
  THEN [content EXCEPT !.fence = "none"]
  ELSE content

\* json.loads: whether the text parses (prose around a fence does not)
json_loads_ok(text) == text.fence = "none" /\ text.valid

\* a variant of extract_memories that also takes the list inside an object
extract_memories_unwrap(content) ==
  LET text == unfenced(content)
  IN  IF json_loads_ok(text) /\ text.type \in {"list", "object"}
      THEN text.items
      ELSE <<>>

\* PsychoanalyticInterpreter.extract_memories, from the answer's text on:
\* the parsed value if it is a list, [] if it is not or if parsing fails
extract_memories(content) ==
  LET text == unfenced(content)
  IN  IF json_loads_ok(text) /\ text.type = "list"
      THEN text.items
      ELSE <<>>

\* a turn whose extraction call answers `content`
ExtractTurn(u, content) ==
  LET db == process_user_input(
              [users |-> users, memories |-> memories, sessions |-> sessions],
              u, extract_memories(content), now)
  IN  /\ memories' = db.memories
      /\ sessions' = db.sessions
      /\ users' = db.users
      /\ maxStreak' = TrackStreak(db.users)
      /\ ret' = Response("turn", u, <<>>, <<content>>)
      /\ prior' = NoRet
      /\ UNCHANGED <<now, temp_files, achievements, passes, turns>>

NextExtract ==
  \/ now < MaxNowX /\ Tick
  \/ \E u \in Users, content \in Contents :
       /\ Len(sessions) < MaxTurnsX
       /\ ExtractTurn(u, content)
  \/ \E u \in Users : TurnFails(u)

SpecExtract == Init /\ [][NextExtract]_vars

\* ------------------------------------- SpecFiles: transcription uploads
\* the uploads: a content type of the ext_map, another audio type, a type
\* that is not audio, and none; with or without bytes
ContentTypes == {"audio/wav", "audio/x-aiff", "text/plain", ""}

AllowedTypes == {"audio/wav"}

IsAudio(content_type) == content_type \in {"audio/wav", "audio/x-aiff"}

Uploads == [content_type : ContentTypes, empty : BOOLEAN]

\* ext_map.get(content_type, ".webm")
extension(content_type) ==
  IF content_type = "audio/wav" THEN ".wav" ELSE ".webm"

\* NamedTemporaryFile(suffix=extension, delete=False): a file under a name
\* no existing file has
new_temp_file(files, suffix) ==
  [id |-> CHOOSE n \in 0..Cardinality(files) :
            \A f \in files : f.id # n,
   suffix |-> suffix]

\* what happens once the upload is accepted: the write to the temporary
\* file raises; the Whisper call raises openai.APIError; another statement
\* of the try block raises; or the transcription arrives
Outcomes == {"write_raises", "api_error", "raises", "transcribed"}

\* POST /transcribe
Transcribe(upload, api_key, outcome) ==
  LET content_type == upload.content_type
      temp_file == new_temp_file(temp_files, extension(content_type))
  IN  /\ IF content_type \notin AllowedTypes /\ ~IsAudio(content_type)
         THEN /\ ret' = Response("transcribe", "", <<HttpBadRequest>>, <<>>)
              /\ UNCHANGED temp_files
         ELSE IF ~api_key
         THEN /\ ret' = Response("transcribe", "", <<HttpServerError>>, <<>>)
              /\ UNCHANGED temp_files
         ELSE IF upload.empty
         THEN /\ ret' = Response("transcribe", "", <<HttpBadRequest>>, <<>>)
              /\ UNCHANGED temp_files
         ELSE CASE outcome = "write_raises" ->
                     \* temp_path is not assigned yet: nothing is unlinked
                     /\ temp_files' = temp_files \cup {temp_file}
                     /\ ret' = Response("transcribe", "", <<HttpServerError>>,
                                        <<temp_file>>)
                [] outcome = "api_error" ->
                     \* the except openai.APIError branch does not unlink
                     /\ temp_files' = temp_files \cup {temp_file}
                     /\ ret' = Response("transcribe", "", <<HttpBadGateway>>,
                                        <<temp_file>>)
                [] outcome = "raises" ->
                     \* the except Exception branch unlinks temp_path
                     /\ temp_files' = temp_files
                     /\ ret' = Response("transcribe", "", <<HttpServerError>>,
                                        <<temp_file>>)
                [] outcome = "transcribed" ->
                     /\ temp_files' = temp_files
                     /\ ret' = Response("transcribe", "", <<HttpOk>>,
                                        <<temp_file>>)
      /\ prior' = NoRet
      /\ UNCHANGED <<now, users, memories, sessions, achievements, passes, turns,
                     maxStreak>>

NextFiles ==
  \/ now < MaxNowF /\ Tick
  \/ \E u \in Users : Len(sessions) < MaxTurnsF /\ Turn(u, <<>>)
  \/ \E upload \in Uploads, api_key \in BOOLEAN, outcome \in Outcomes :
       /\ Cardinality(temp_files) < MaxLeft
       /\ Transcribe(upload, api_key, outcome)

SpecFiles == Init /\ [][NextFiles]_vars

\* --------------------------------------- SpecDash: dashboard statistics
\* the categories of the given memory rows (empty ones left out)
categories_of(mems, rows) ==
  {mems[i].category : i \in {j \in rows : mems[j].category # ""}}

\* DashboardStatsResponse as get_dashboard_stats fills it from the result of
\* get_recent_sessions(limit=1) and the rows of get_recent_memories(limit=1000)
stats_response(sess, mems, u, recent_sessions, recent_memories) ==
  [total_sessions |-> Len(recent_sessions),
   total_memories |-> Cardinality(recent_memories),
   active_patterns |-> Cardinality(categories_of(mems, recent_memories)),
   last_session |-> IF recent_sessions = <<>> THEN NoDate
                    ELSE sess[recent_sessions[1]].created_at]

\* GET /trader/{user_id}/stats
GetDashboardStats(u) ==
  /\ users' = get_or_create_user(users, u)
  /\ \E recent_sessions \in get_recent_sessions(sessions, u, StatsSessionLimit),
        recent_memories \in recent_rows(memories, u, AchievementScanLimit) :
       ret' = Response("stats", u, <<HttpOk>>,
                       <<stats_response(sessions, memories, u, recent_sessions,
                                        recent_memories)>>)
  /\ prior' = NoRet
  /\ UNCHANGED <<now, temp_files, memories, sessions, achievements, passes,
                 turns, maxStreak>>

DashOutputs == {<<>>, <<ObsFear>>}

NextDash ==
  \/ now < MaxNowD /\ Tick
  \/ \E u \in Users, observations \in DashOutputs :
       /\ Len(sessions) < MaxTurnsD
       /\ Turn(u, observations)
  \/ \E u \in Users : GetDashboardStats(u)

SpecDash == Init /\ [][NextDash]_vars

\* ----------------------------- SpecAtomic: turns whose writes can fail
\* Each repository write commits on its own (create_memory,
\* create_session_record, update_user_stats), and process_user_input has no
\* rollback: a step that raises ends the request with 500 and leaves what
\* the earlier steps committed.

\* batch_store_observations raises after k of its rows are committed
TurnStoreRaises(p) ==
  LET turn == turns[p]
      rows == batch_store_observations(turn.user, turn.observations, now)
  IN  /\ turn.pc = "store"
      /\ turn.observations # <<>>
      /\ \E k \in 0..Max(0, Len(rows) - 1) :
           memories' = memories \o SubSeq(rows, 1, k)
      /\ turns' = [turns EXCEPT ![p] = IdleTurn]
      /\ ret' = Response("turn_error", turn.user, <<>>, <<>>)
      /\ prior' = NoRet
      /\ UNCHANGED <<now, temp_files, users, sessions, achievements, passes,
                     maxStreak>>

\* log_interaction raises
TurnLogRaises(p) ==
  /\ turns[p].pc = "log"
  /\ turns' = [turns EXCEPT ![p] = IdleTurn]
  /\ ret' = Response("turn_error", turns[p].user, <<>>, <<>>)
  /\ prior' = NoRet
  /\ UNCHANGED <<now, temp_files, users, memories, sessions, achievements,
                 passes, maxStreak>>

\* update_user_stats raises
TurnStatsRaises(p) ==
  /\ turns[p].pc = "stats"
  /\ turns' = [turns EXCEPT ![p] = IdleTurn]
  /\ ret' = Response("turn_error", turns[p].user, <<>>, <<>>)
  /\ prior' = NoRet
  /\ UNCHANGED <<now, temp_files, users, memories, sessions, achievements,
                 passes, maxStreak>>

NextAtomic ==
  \/ now < MaxNowAt /\ Tick
  \/ \E p \in Procs, u \in Users :
       /\ TurnsBegun < MaxTurnsAt
       /\ Len(memories) < MaxStoredAt
       /\ TurnContext(p, u)
  \/ \E p \in Procs : TurnGenerate(p)
  \/ \E p \in Procs : TurnRaises(p)
  \/ \E p \in Procs : TurnStore(p)
  \/ \E p \in Procs : TurnStoreRaises(p)
  \/ \E p \in Procs : TurnLog(p)
  \/ \E p \in Procs : TurnLogRaises(p)
  \/ \E p \in Procs : TurnStats(p)
  \/ \E p \in Procs : TurnStatsRaises(p)

SpecAtomic == Init /\ [][NextAtomic]_vars

\* ------------------------ SpecCtx: the context of a turn with two users
\* Subject has completed one turn that stored a breakthrough; then turns of
\* both users run in steps; the clock is advanced between turns
InitCtx == After(<<0>>, <<ObsFear>>, 0)

NextCtx ==
  \/ /\ now < MaxNowC
     /\ \A p \in Procs : turns[p].pc = "idle"
     /\ Tick
  \/ \E p \in Procs, u \in Users :
       /\ TurnsBegun <= MaxTurnsC
       /\ TurnContext(p, u)
  \/ \E p \in Procs : TurnGenerate(p)
  \/ \E p \in Procs : TurnRaises(p)
  \/ \E p \in Procs : TurnStore(p)
  \/ \E p \in Procs : TurnLog(p)
  \/ \E p \in Procs : TurnStats(p)

SpecCtx == InitCtx /\ [][NextCtx]_vars

\* ==================================================================== claims
\* C1: in every reachable state of every user, longest_streak is at least
\* current_streak.
C1_LongestAtLeastCurrent ==
  \A u \in Users : users[u].longest_streak >= users[u].current_streak

\* a user whose streak was reset after having been longer
C1_Witness ==
  \E u \in Users :
    /\ users[u].current_streak = 1
    /\ users[u].longest_streak = 2
    /\ users[u].total_sessions = 3

\* C2: in every reachable state of every user, the stored connection_depth
\* is an integer between 1 and 5.
C2_DepthInRange ==
  \A u \in Users : users[u].connection_depth \in 1..5

\* a user at the top session tier who also earns both bonuses
C2_Witness ==
  /\ users[Subject].total_sessions >= 50
  /\ users[Subject].current_streak >= 3
  /\ users[Subject].last_interaction_date - users[Subject].first_interaction_date
       >= 30 * TicksPerDay
  /\ users[Subject].connection_depth = 5

\* C3: a stats update sets current_streak from the calendar-day gap between
\* today and the day of last_interaction_date: gap 0 leaves it unchanged,
\* gap 1 adds one, a larger gap sets it to 1, and a user with no prior
\* interaction gets 1.
C3_Gap(u) == (now \div TicksPerDay) - (users[u].last_interaction_date \div TicksPerDay)

C3_StreakRule ==
  [][\A u \in Users :
       users'[u].total_sessions = users[u].total_sessions + 1 =>
         IF users[u].last_interaction_date = NoDate
         THEN users'[u].current_streak = 1
         ELSE /\ C3_Gap(u) = 0 => users'[u].current_streak = users[u].current_streak
              /\ C3_Gap(u) = 1 => users'[u].current_streak = users[u].current_streak + 1
              /\ C3_Gap(u) > 1 => users'[u].current_streak = 1]_vars

\* a user whose history holds a first turn, a same-day turn, a next-day turn
\* and a turn after a gap: four turns on days 0, 1 and 3 of their history
C3_Witness ==
  \E u \in Users :
    /\ users[u].total_sessions = 4
    /\ users[u].current_streak = 1
    /\ users[u].longest_streak = 2
    /\ date(users[u].last_interaction_date) - date(users[u].first_interaction_date) = 3

\* C4: longest_streak equals the largest value current_streak has taken
\* since the user was created.
C4_LongestIsPeak ==
  \A u \in Users : users[u].longest_streak = maxStreak[u]

\* the peak lies in the past: the streak reached 3 and was reset
C4_Witness ==
  \E u \in Users : maxStreak[u] = 3 /\ users[u].current_streak = 1

\* C5: after every stats update connection_depth is clamp(base + s + d, 1, 5)
\* of the updated row: base 1/2/3/4/5 for total_sessions <3 / >=3 / >=10 /
\* >=25 / >=50, s = 1 for a streak of 3 or more, d = 1 once 30 days have
\* passed since first_interaction_date.
C5_Base(n) ==
  CASE n >= 50 -> 5 [] n >= 25 /\ n < 50 -> 4 [] n >= 10 /\ n < 25 -> 3
    [] n >= 3 /\ n < 10 -> 2 [] OTHER -> 1

C5_Clamp(x) == IF x < 1 THEN 1 ELSE IF x > 5 THEN 5 ELSE x

C5_Expected(user) ==
  C5_Clamp(C5_Base(user.total_sessions)
           + (IF user.current_streak >= 3 THEN 1 ELSE 0)
           + (IF user.last_interaction_date - user.first_interaction_date
                   >= 30 * TicksPerDay THEN 1 ELSE 0))

C5_DepthFormula ==
  \A u \in Users :
    users[u].total_sessions >= 1 => users[u].connection_depth = C5_Expected(users[u])

\* an update made just as the 30 days are over, in the third session tier,
\* with a streak bonus: 3 + 1 + 1
C5_Witness ==
  /\ users[Subject].total_sessions \in 10..24
  /\ users[Subject].current_streak >= 3
  /\ users[Subject].last_interaction_date - users[Subject].first_interaction_date
       = 30 * TicksPerDay
  /\ users[Subject].connection_depth = 5

\* --------------------------------------------------------------- check pass
\* a step that serves a check pass: the only handler that answers "check"
\* (Tick leaves the last response in place but moves the clock)
C6_CheckStep == ret'.op = "check" /\ now' = now

C6_Unlocked(ach, u, key) ==
  \E i \in 1..Len(ach) : ach[i].user_id = u /\ ach[i].achievement_key = key

\* the keys whose predicate is true on the state of user u
C6_TrueKeySet(us, mems, u) ==
  LET conds == achievement_checks(us[u], mems, u, RowsOf(mems, u))
  IN  {AchievementKeys[k] : k \in {j \in 1..Len(AchievementKeys) : conds[j]}}

\* C6: after a check pass for a user every key whose predicate is true on
\* the user's state is unlocked for that user, and the pass returns exactly
\* the keys that were not unlocked before it and whose predicate is true
\* (each once, as rows of that user).
C6_CheckUnlocksTrueKeys ==
  [][C6_CheckStep =>
       LET u == ret'.user
           true_keys == C6_TrueKeySet(users', memories', u)
           returned == ret'.value
       IN  /\ \A key \in true_keys : C6_Unlocked(achievements', u, key)
           /\ \A i \in 1..Len(returned) :
                /\ returned[i] \in 1..Len(achievements')
                /\ achievements'[returned[i]].user_id = u
           /\ {achievements'[returned[i]].achievement_key : i \in 1..Len(returned)}
                = {key \in true_keys : ~C6_Unlocked(achievements, u, key)}
           /\ \A i, j \in 1..Len(returned) :
                i # j => achievements'[returned[i]].achievement_key
                           # achievements'[returned[j]].achievement_key
  ]_vars

\* a pass that returned several keys and skipped a true key unlocked before
C6_Witness ==
  /\ ret.op = "check"
  /\ Len(ret.value) > 1
  /\ \E key \in C6_TrueKeySet(users, memories, ret.user) :
       \A i \in 1..Len(ret.value) : achievements[ret.value[i]].achievement_key # key

\* C7: a check pass that directly follows a check pass for the same user
\* returns an empty list, adds no Achievement row and changes no existing
\* row (neither unlocked_at nor celebrated).
C7_CheckIdempotent ==
  [][(C6_CheckStep /\ ret.op = "check" /\ ret.user = ret'.user) =>
       /\ ret'.value = <<>>
       /\ Len(achievements') = Len(achievements)
       /\ \A i \in 1..Len(achievements) :
            /\ achievements'[i].unlocked_at = achievements[i].unlocked_at
            /\ achievements'[i].celebrated = achievements[i].celebrated
  ]_vars

\* a second pass after a pass that unlocked keys, at a later clock value
C7_Witness ==
  /\ ret.op = "check"
  /\ prior.op = "check"
  /\ prior.user = ret.user
  /\ prior.value # <<>>
  /\ ret.value = <<>>
  /\ \E i \in 1..Len(achievements) :
       achievements[i].user_id = ret.user /\ achievements[i].unlocked_at < now

\* ----------------------------------------------------------- one row per key
\* C8: in every reachable state there is at most one Achievement row per
\* (user, achievement_key) pair, also when two check passes for the same user
\* overlap between the has_achievement lookup and the insert.
C8_OneRowPerKey ==
  \A i, j \in 1..Len(achievements) :
    (/\ achievements[i].user_id = achievements[j].user_id
     /\ achievements[i].achievement_key = achievements[j].achievement_key) => i = j

\* ---------------------------------------------------------- celebrated flag
\* a step that serves a celebrate call on an existing achievement
C9_CelebrateStep == ret'.op = "celebrate" /\ now' = now

\* the flag is false on a new row, an existing row keeps its place, a set
\* flag stays set, and a flag changes only in the celebrate call on its row
C9_FlagStep ==
  /\ Len(achievements') >= Len(achievements)
  /\ \A i \in (Len(achievements) + 1)..Len(achievements') :
       ~achievements'[i].celebrated
  /\ \A i \in 1..Len(achievements) :
       /\ achievements[i].celebrated => achievements'[i].celebrated
       /\ achievements'[i].celebrated # achievements[i].celebrated
            => C9_CelebrateStep /\ ret'.value = <<i>>

C9_Recelebrate == C9_CelebrateStep /\ achievements[ret'.value[1]].celebrated

C10_Qualifying(u, min_relevance) ==
  {i \in 1..Len(memories) :
     memories[i].user_id = u /\ memories[i].relevance_score >= min_relevance}

\* row a comes strictly before row b in (relevance desc, created_at desc)
C10_RanksBefore(a, b) ==
  \/ memories[a].relevance_score > memories[b].relevance_score
  \/ /\ memories[a].relevance_score = memories[b].relevance_score
     /\ memories[a].created_at > memories[b].created_at

\* C10: get_relevant_memories(user, min_relevance, limit) returns only
\* memories of that user with relevance_score >= min_relevance, at most limit
\* of them, sorted by relevance descending with equal relevance ordered by
\* creation time descending, and it returns the top of that order: no omitted
\* qualifying memory ranks before a returned one (and none is omitted while
\* the limit leaves room).
C10_RelevantTop ==
  ret.op = "relevant" =>
    LET returned == ret.value
        limit == ret.arg[2]
        qualifying == C10_Qualifying(ret.user, ret.arg[1])
        omitted == qualifying \ {returned[i] : i \in 1..Len(returned)}
    IN  /\ \A i \in 1..Len(returned) : returned[i] \in qualifying
        /\ Len(returned) <= limit
        /\ \A i, j \in 1..Len(returned) :
             i < j => /\ returned[i] # returned[j]
                      /\ ~C10_RanksBefore(returned[j], returned[i])
        /\ \A a \in omitted :
             /\ Len(returned) = limit
             /\ \A i \in 1..Len(returned) : ~C10_RanksBefore(a, returned[i])

\* a result cut by the limit: two rows of equal relevance, the later one
\* first, and a qualifying row of lower relevance left out, next to a row
\* below the threshold
C10_Witness ==
  /\ ret.op = "relevant"
  /\ Len(ret.value) = 2
  /\ memories[ret.value[1]].relevance_score = memories[ret.value[2]].relevance_score
  /\ memories[ret.value[1]].created_at > memories[ret.value[2]].created_at
  /\ \E a \in C10_Qualifying(ret.user, ret.arg[1]) :
       memories[a].relevance_score < memories[ret.value[2]].relevance_score

\* ------------------------------------------------------- one update per turn
\* the user of the turn a step completes: a turn appends one interaction
\* record, and nothing else does
C11_TurnOf(u) ==
  /\ Len(sessions') = Len(sessions) + 1
  /\ sessions'[Len(sessions')].user_id = u

\* C11: every completed turn raises the user's total_sessions by exactly 1
\* and applies the streak rule once (also for a second and third turn on the
\* same day), and no other step changes total_sessions or current_streak.
C11_OneUpdatePerTurn ==
  [][\A u \in Users :
       IF C11_TurnOf(u)
       THEN /\ users'[u].total_sessions = users[u].total_sessions + 1
            /\ users'[u].current_streak =
                 IF users[u].last_interaction_date = NoDate THEN 1
                 ELSE IF C3_Gap(u) = 0 THEN users[u].current_streak
                 ELSE IF C3_Gap(u) = 1 THEN users[u].current_streak + 1
                 ELSE 1
       ELSE /\ users'[u].total_sessions = users[u].total_sessions
            /\ users'[u].current_streak = users[u].current_streak
  ]_vars

\* three turns of one user on one day, after a two-day streak
C11_Witness ==
  \E u \in Users :
    /\ users[u].total_sessions = 4
    /\ users[u].current_streak = 2
    /\ Cardinality({i \in RowsOf(sessions, u) :
                      date(sessions[i].created_at) = date(now)}) = 3

\* ------------------------------------------------------- order within a turn
\* the context a turn in progress holds has no row the turn itself stored
C12_ContextOld(p) ==
  /\ Range(turns[p].recent) \cap turns[p].stored = {}
  /\ Range(turns[p].relevant) \cap turns[p].stored = {}
  /\ Range(turns[p].recent_sessions) \cap turns[p].logged = {}

\* the steps of turn p so far are a prefix of: context, generation and
\* extraction, memories, interaction record, stats
C12_InOrder(p) ==
  /\ turns[p].pc \in {"idle", "generate"} =>
       turns[p].observations = <<>> /\ turns[p].stored = {}
  /\ turns[p].pc \in {"idle", "generate", "store", "log"} => turns[p].logged = {}
  /\ turns[p].pc = "stats" => turns[p].logged # {}

\* C12: a turn reads its context, generates and extracts, stores the new
\* memories and the interaction record and updates the stats, in this order:
\* the context never holds a memory or interaction record of the same turn,
\* and the stats it holds are those before the turn's update (fewer sessions
\* than the row the update writes).
C12_TurnOrder ==
  [][/\ \A p \in Procs :
          /\ C12_ContextOld(p) /\ C12_InOrder(p)
          /\ C12_ContextOld(p)' /\ C12_InOrder(p)'
          /\ (turns[p].pc = "stats" /\ turns'[p].pc = "idle") =>
                /\ turns[p].stats.total_sessions
                     <= users[turns[p].user].total_sessions
                /\ turns[p].stats.total_sessions
                     < users'[turns[p].user].total_sessions
     /\ \A u \in Users :
          users'[u].total_sessions # users[u].total_sessions =>
            \E p \in Procs :
              turns[p].pc = "stats" /\ turns[p].user = u /\ turns'[p].pc = "idle"
  ]_vars

\* a turn about to update the stats: it stored a memory and its record, and
\* its context holds an earlier memory and an earlier record of the same user
C12_Witness ==
  \E p \in Procs :
    /\ turns[p].pc = "stats"
    /\ turns[p].stored # {}
    /\ turns[p].recent # <<>>
    /\ turns[p].relevant # <<>>
    /\ turns[p].recent_sessions # <<>>
    /\ turns[p].stats.total_sessions = 1

\* ---------------------------------------------------------------------- C13
\* C13: every stored memory has a relevance_score between 1 and 10, whatever
\* scores the extraction step returns and after any promotion or decay.
C13_RelevanceInRange ==
  \A i \in 1..Len(memories) :
    memories[i].relevance_score \in MinRelevance..MaxRelevance

\* ---------------------------------------------------------------------- C14
\* C14: a stored memory never changes except in its relevance score (owner,
\* observation, interpretation, category, follow-up question, people list,
\* identity flag, breakthrough flag and creation time stay as written) and
\* is never deleted, whatever operation runs: a turn, an achievement pass, a
\* celebration, a promotion, a decay, a dashboard read.
C14_Content(m) == [m EXCEPT !.relevance_score = 0]

C14_MemoriesKept ==
  [][/\ Len(memories') >= Len(memories)
     /\ \A i \in 1..Len(memories) :
          C14_Content(memories'[i]) = C14_Content(memories[i])]_vars

\* a breakthrough stored first has been decayed, a later memory is stored,
\* an achievement is unlocked and celebrated, and a dashboard read answers
C14_Witness ==
  /\ Len(memories) = MaxNotes
  /\ memories[1].observation = ObsFear.observation
  /\ memories[1].relevance_score = DecayedRelevance
  /\ memories[MaxNotes].relevance_score = PromotedRelevance
  /\ memories[MaxNotes].observation = ObsLoud.observation
  /\ \E i \in 1..Len(achievements) : achievements[i].celebrated
  /\ ret.op = "memories"

\* ---------------------------------------------------------------------- C15
\* C15: after every completed turn, with a clock that never goes back,
\* current_streak is the number of days in the longest run of consecutive
\* calendar days that ends on the day of the turn and has at least one
\* completed turn of the user on each day.
C15_Days(u) == {date(sessions[i].created_at) : i \in RowsOf(sessions, u)}

C15_Run(u) ==
  LET last == date(users[u].last_interaction_date)
  IN  Cardinality({d \in C15_Days(u) : \A e \in d..last : e \in C15_Days(u)})

C15_StreakIsRun ==
  \A u \in Users :
    users[u].total_sessions > 0 =>
      /\ \A d \in C15_Days(u) : d <= date(users[u].last_interaction_date)
      /\ date(users[u].last_interaction_date) \in C15_Days(u)
      /\ users[u].current_streak = C15_Run(u)

\* turns on days 0, 1, 3 and 4: the run that ends on the last turn's day has
\* two days and an earlier run of two days does not count
C15_Witness ==
  \E u \in Users :
    /\ ret = Response("turn", u, <<>>, <<>>)
    /\ C15_Days(u) = {0, 1, 3, 4}
    /\ users[u].current_streak = 2

\* ---------------------------------------------------------------------- C16
\* C16: every achievement condition depends only on the user's session
\* count, current streak, connection depth, breakthrough count, identity
\* statement count and count of distinct people mentioned: two users who
\* agree on these six and on the keys already unlocked unlock the same keys
\* in a check pass.
C16_Six(u) ==
  LET user == get_or_create_user(users, u)[u]
  IN  << user.total_sessions, user.current_streak, user.connection_depth,
         Cardinality({i \in RowsOf(memories, u) : memories[i].is_breakthrough_moment}),
         Cardinality({i \in RowsOf(memories, u) : memories[i].is_identity_statement}),
         Cardinality(UNION {people_of(memories[i]) : i \in RowsOf(memories, u)}) >>

C16_Unlocked(u) ==
  {achievements[i].achievement_key : i \in RowsOf(achievements, u)}

C16_PassKeys(u) ==
  check_and_unlock_achievements(users, memories, achievements, u, now)

C16_SixDecide ==
  \A u, v \in Users :
    (C16_Six(u) = C16_Six(v) /\ C16_Unlocked(u) = C16_Unlocked(v))
      => C16_PassKeys(u) = C16_PassKeys(v)

\* C16, with the number of stored memories as a seventh quantity: users who
\* agree on the six, on the number of their stored memories and on the keys
\* already unlocked unlock the same keys in a check pass.
C16_Stored(u) == Cardinality(RowsOf(memories, u))

C16_SevenDecide ==
  \A u, v \in Users :
    (/\ C16_Six(u) = C16_Six(v)
     /\ C16_Stored(u) = C16_Stored(v)
     /\ C16_Unlocked(u) = C16_Unlocked(v))
      => C16_PassKeys(u) = C16_PassKeys(v)

\* a pass has just unlocked keys for one user, the other user agrees on the
\* seven quantities and holds the same keys, and their memories differ
C16_Witness ==
  \E u, v \in Users :
    /\ u # v
    /\ ret.op = "check" /\ ret.user = u /\ ret.value # <<>>
    /\ C16_Six(u) = C16_Six(v)
    /\ C16_Stored(u) = C16_Stored(v)
    /\ C16_Unlocked(u) = C16_Unlocked(v)
    /\ \E i \in RowsOf(memories, u) :
         \A j \in RowsOf(memories, v) :
           memories[i].observation # memories[j].observation

\* ---------------------------------------------------------------------- C17
\* C17: on every turn on which total_sessions reaches 3, 10, 25 or 50,
\* connection_depth after the turn is at least connection_depth before it,
\* whatever the turn does to the streak, a reset to 1 included.
C17_Thresholds == {DepthSessions2, DepthSessions3, DepthSessions4, DepthSessions5}

C17_DepthKeptAtThreshold ==
  [][\A u \in Users :
       (/\ users'[u].total_sessions = users[u].total_sessions + 1
        /\ users'[u].total_sessions \in C17_Thresholds)
         => users'[u].connection_depth >= users[u].connection_depth]_vars

\* the tenth turn comes two days or more after a run of three daily turns
\* and resets the streak
C17_Witness ==
  LET n == Len(sessions)
  IN  /\ n = DepthSessions3
      /\ users[Subject].total_sessions = n
      /\ users[Subject].current_streak = 1
      /\ users[Subject].longest_streak >= StreakBonusMin
      /\ date(sessions[n].created_at) - date(sessions[n - 1].created_at) > 1
      /\ date(sessions[n - 1].created_at) - date(sessions[n - 2].created_at) = 1
      /\ date(sessions[n - 2].created_at) - date(sessions[n - 3].created_at) = 1
      /\ ret = Response("turn", Subject, <<>>, <<>>)

\* ---------------------------------------------------------------------- C18
\* C18: a session or coach request whose user_input is empty or only
\* whitespace is answered with status 400 and changes no stored state: no
\* user row is created, no memory or interaction record is stored, no stats
\* change.
C18_BlankRequest ==
  /\ ret'.op \in {"session", "coach"}
  /\ now' = now
  /\ ret'.arg \in {<<"">>, <<" ">>}

C18_BlankRefused ==
  [][C18_BlankRequest =>
       /\ ret'.value = <<HttpBadRequest>>
       /\ UNCHANGED <<users, memories, sessions, achievements>>]_vars

\* a blank input was refused for a user who has no row, after another
\* user's turn was stored
C18_Witness ==
  \E u \in Users :
    /\ ret = Response("session", u, <<HttpBadRequest>>, <<" ">>)
    /\ ~users[u].exists
    /\ Len(sessions) > 0 /\ Len(memories) > 0

\* ---------------------------------------------------------------------- C19
\* C19: a coach request with a non-empty user_input, when the language model
\* call succeeds, returns the coach's response, appends exactly one
\* interaction record for the user and applies the stats update exactly
\* once.
C19_CoachRequest ==
  /\ ret'.op = "coach"
  /\ now' = now
  /\ ret'.arg = <<"hi">>

C19_CoachTurn ==
  [][\A u \in Users :
       (C19_CoachRequest /\ ret'.user = u) =>
         /\ ret'.value = <<HttpOk>>
         /\ Len(sessions') = Len(sessions) + 1
         /\ sessions'[Len(sessions')].user_id = u
         /\ users'[u].total_sessions = users[u].total_sessions + 1]_vars

\* ---------------------------------------------------------------------- C20
\* C20: GET /trader/{user_id}/achievements returns all achievements unlocked
\* so far for the user: after a check pass that unlocked a set K of keys it
\* returns exactly the user's unlocked keys, which include K.
C20_ReturnsUnlocked ==
  [][\A u \in Users :
       (/\ ret.op = "check" /\ ret.user = u /\ ret.value # <<>>
        /\ ret'.op = "achievements" /\ ret'.user = u /\ now' = now) =>
         /\ ret'.value = <<HttpOk>>
         /\ {achievements[i].achievement_key : i \in Range(ret'.arg)}
              = {achievements[i].achievement_key : i \in RowsOf(achievements, u)}
         /\ Range(ret.value) \subseteq Range(ret'.arg)]_vars

\* ---------------------------------------------------------------------- C21
\* C21: decay_memory_relevance(memory_id, decay_amount) lowers the relevance
\* score of an existing memory by decay_amount: the score after the call is
\* the score before minus decay_amount, and so never higher than before.
C21_DecayStep ==
  /\ ret'.op = "decay"
  /\ now' = now

C21_DecaySubtracts ==
  [][C21_DecayStep =>
       LET id == ret'.value[1]
           decay_amount == ret'.arg[1]
       IN  /\ memories'[id].relevance_score
                = memories[id].relevance_score - decay_amount
           /\ memories'[id].relevance_score <= memories[id].relevance_score]_vars

\* ---------------------------------------------------------------------- C22
\* C22: the conversation history given to memory extraction in a turn is
\* the user's last 2 interactions, the two most recent interaction records
\* stored before the turn, whenever the user has at least 3 earlier records.
\* (The turn read its ContextSessions most recent records; with at least
\* that many stored, the two most recent of all are the two most recent of
\* those read.)
C22_HistoryIsLastTwo ==
  \A p \in Procs :
    (/\ turns[p].pc \in {"store", "log", "stats"}
     /\ Len(turns[p].recent_sessions) = ContextSessions) =>
      LET read == Range(turns[p].recent_sessions)
          given == Range(turns[p].history)
      IN  /\ Cardinality(given) = HistoryEntries
          /\ \A i \in given, j \in read \ given :
               sessions[j].created_at <= sessions[i].created_at

\* ---------------------------------------------------------------------- C23
\* C23: when the extraction step's output does not parse as JSON or is not a
\* JSON list, extract_memories returns an empty list and the turn still
\* completes: no memory is stored, exactly one interaction record is
\* appended, the stats update is applied once and the reply is returned.
C23_Unusable(content) ==
  \/ content.fence = "inner"
  \/ ~content.valid
  \/ content.type # "list"

C23_TurnStep(u) ==
  /\ ret'.op = "turn" /\ ret'.user = u
  /\ now' = now
  /\ ret'.arg # <<>>

C24_TempFileGone ==
  [][(ret'.op = "transcribe" /\ now' = now /\ ret'.arg # <<>>)
       => ret'.arg[1] \notin temp_files']_vars

\* ---------------------------------------------------------------------- C25
\* C25: the total_sessions value that GET /trader/{user_id}/stats returns is
\* the number of interaction records stored for that user, for any number
\* of records.
C25_TotalSessionsIsCount ==
  \A u \in Users :
    (ret.op = "stats" /\ ret.user = u) =>
      ret.arg[1].total_sessions = Cardinality(RowsOf(sessions, u))

\* ---------------------------------------------------------------------- C26
\* C26: a turn is all-or-nothing in what it persists: when a turn ends,
\* completed or failed at any step (storing memories, logging the
\* interaction, updating stats), either its extracted memories, its
\* interaction record and its stats update are all persisted or none is.
C26_AllOrNothing ==
  [][\A p \in Procs :
       (turns[p].pc # "idle" /\ turns'[p].pc = "idle") =>
         LET turn == turns[p]
             rows == batch_store_observations(turn.user, turn.observations, 0)
             updated == users'[turn.user].total_sessions
                          = users[turn.user].total_sessions + 1
         IN  \/ /\ Cardinality(turn.stored) = Len(rows)
                /\ turn.logged # {}
                /\ updated
             \/ /\ turn.stored = {}
                /\ Len(memories') = Len(memories)
                /\ turn.logged = {}
                /\ ~updated]_vars

\* ---------------------------------------------------------------------- C27
\* C27: a celebrate request made under user id U changes the celebrated
\* flag only of an achievement that belongs to U: no request issued for one
\* user changes an achievement row of another user.
C27_OwnRowsOnly ==
  [][\A u \in Users :
       (ret'.user = u /\ now' = now) =>
         \A i \in 1..Len(achievements) :
           achievements'[i] # achievements[i] => achievements[i].user_id = u]_vars

\* ---------------------------------------------------------------------- C28
\* C28: the context assembled for a turn of user U (recent memories,
\* high-relevance memories, recent interaction records, stats) holds only
\* rows of U: for any interleaving of turns of two users, the context of one
\* user's turn is what it would be had the other user never interacted.
RECURSIVE C28_Own(_, _)
C28_Own(tbl, u) ==
  IF tbl = <<>> THEN <<>>
  ELSE (IF Head(tbl).user_id = u THEN <<Head(tbl)>> ELSE <<>>)
         \o C28_Own(Tail(tbl), u)

C28_Rows(tbl, ids) == [k \in 1..Len(ids) |-> tbl[ids[k]]]

C28_Alone(u) ==
  get_or_create_user([v \in Users |-> IF v = u THEN users[v] ELSE NoUser], u)

C28_ContextStep(p) == turns[p].pc = "idle" /\ turns'[p].pc = "generate"

C28_OwnContext ==
  [][\A p \in Procs :
       C28_ContextStep(p) =>
         LET turn == turns'[p]
             u == turn.user
             mems == C28_Own(memories, u)
             sess == C28_Own(sessions, u)
         IN  /\ \A i \in Range(turn.recent) \cup Range(turn.relevant) :
                  memories[i].user_id = u
             /\ \A i \in Range(turn.recent_sessions) : sessions[i].user_id = u
             /\ C28_Rows(memories, turn.recent)
                  \in {C28_Rows(mems, r) :
                         r \in get_recent_memories(mems, u, ContextRecent)}
             /\ C28_Rows(memories, turn.relevant)
                  \in {C28_Rows(mems, r) :
                         r \in get_relevant_memories(mems, u, ContextMinRelevance,
                                                     ContextRelevant)}
             /\ C28_Rows(sessions, turn.recent_sessions)
                  \in {C28_Rows(sess, r) :
                         r \in get_recent_sessions(sess, u, ContextSessions)}
             /\ turn.stats = get_user_relationship_stats(C28_Alone(u)[u], now)]_vars

\* a turn has read a context with a memory and a record of its user while
\* the other user has a memory and a record stored
C28_Witness ==
  \E p \in Procs :
    LET u == turns[p].user
    IN  /\ turns[p].pc = "generate"
        /\ turns[p].recent # <<>>
        /\ turns[p].relevant # <<>>
        /\ turns[p].recent_sessions # <<>>
        /\ \E i \in 1..Len(memories) : memories[i].user_id \notin {u, ""}
        /\ \E i \in 1..Len(sessions) : sessions[i].user_id \notin {u, ""}

\* C29: a POST /session whose reply generation or memory extraction raises
\* is answered with status 500; that step stores no memory, appends no
\* interaction record, unlocks nothing, and leaves every user row as it was,
\* except that the row of the request's user is created when it did not exist
C29_FailedTurn ==
  /\ ret'.op = "session"
  /\ ret'.value = <<HttpServerError>>
  /\ now' = now

C29_FailureWritesNothing ==
  [][C29_FailedTurn =>
       /\ memories' = memories
       /\ sessions' = sessions
       /\ achievements' = achievements
       /\ \A u \in Users :
            \/ users'[u] = users[u]
            \/ /\ u = ret'.user
               /\ ~users[u].exists
               /\ users'[u] = NewUser]_vars

\* a turn failed for a user who has sessions and a stored memory
C29_Witness ==
  /\ ret.op = "session"
  /\ ret.value = <<HttpServerError>>
  /\ ret.user \in Users
  /\ users[ret.user].total_sessions > 0
  /\ \E i \in 1..Len(memories) : memories[i].user_id = ret.user

====
